---- MODULE Spec2Model ----
(***************************************************************************)
(* Account REST service: the route handlers of service/routes.py over the  *)
(* Account entity and its relational table.                                *)
(*                                                                         *)
(* Spec     : requests handled one at a time (the test client's setting).  *)
(* ConcSpec : two requests in flight, each handler split at its            *)
(*            persistence calls (find / commit).                           *)
(***************************************************************************)
EXTENDS Integers, Sequences, FiniteSets, TLC

VARIABLES
    accounts,   \* the Account table: id -> row
    nextId,     \* the table's auto-increment sequence: the next id it hands out
    request,    \* the request handled last
    response,   \* the response returned to it
    history,    \* ghost: number of 201 responses, and whether any DELETE was handled
    pc,         \* ConcSpec: each worker's position in its handler
    job,        \* ConcSpec: each worker's request
    sess,       \* ConcSpec: each worker's session object (what its find returned)
    reply,      \* ConcSpec: each worker's response
    db0         \* ConcSpec: the table when the requests were launched

vars == <<accounts, nextId, request, response, history, pc, job, sess, reply, db0>>

seqVars == <<request, response, history>>
concVars == <<pc, job, sess, reply, db0>>

----------------------------------------------------------------------------
(* Bounds *)

\* how many ids the sequence hands out
MaxAccounts == 2

(* HTTP status codes *)
HTTP_200_OK == 200
HTTP_201_CREATED == 201
HTTP_204_NO_CONTENT == 204
HTTP_400_BAD_REQUEST == 400
HTTP_404_NOT_FOUND == 404
HTTP_415_UNSUPPORTED_MEDIA_TYPE == 415
HTTP_500_INTERNAL_SERVER_ERROR == 500

----------------------------------------------------------------------------
(* Values *)

\* Python None / JSON null; distinct from every string of the input sets
None == "None"

Names == {"Alice", "Bob"}
Emails == {"a@x.com"}
Addresses == {"1 Main St"}
Phones == {"555-1111"}

\* dates are <<year, month, day>>
\* the dates a client sends as date_joined
SampleDates == { <<2024, 2, 9>> }
\* date.today() while the requests are handled
Todays == { <<2025, 11, 30>> }

Ids == 1..(MaxAccounts + 1)

ContentTypes == {None, "application/json", "test/html", "application/json; charset=utf-8"}

Keys == {"name", "email", "address", "phone_number", "date_joined"}
SerializedKeys == {"id"} \cup Keys

----------------------------------------------------------------------------
(* ISO dates: a string is a sequence of characters *)

Digits == <<"0", "1", "2", "3", "4", "5", "6", "7", "8", "9">>

Pow10(k) == IF k = 0 THEN 1 ELSE IF k = 1 THEN 10 ELSE IF k = 2 THEN 100 ELSE 1000

\* n as w decimal digits, zero-padded
Pad(n, w) == [i \in 1..w |-> Digits[((n \div Pow10(w - i)) % 10) + 1]]

DigitVal(c) == CHOOSE n \in 0..9 : Digits[n + 1] = c

RECURSIVE Num(_)
Num(s) == IF s = <<>> THEN 0
          ELSE Num(SubSeq(s, 1, Len(s) - 1)) * 10 + DigitVal(s[Len(s)])

\* date.isoformat(): YYYY-MM-DD
isoformat(d) == Pad(d[1], 4) \o <<"-">> \o Pad(d[2], 2) \o <<"-">> \o Pad(d[3], 2)

\* date.fromisoformat()
fromisoformat(s) == << Num(SubSeq(s, 1, 4)), Num(SubSeq(s, 6, 7)), Num(SubSeq(s, 9, 10)) >>

----------------------------------------------------------------------------
(* JSON request bodies *)

EmptyObject == [k \in {} |-> None]

Member(k, Vals) == {EmptyObject} \cup { (k :> v) : v \in Vals }

RequiredKeys == {"name", "email", "address"}

\* every JSON object over the five keys, each key present or absent
AllObjects ==
    { a @@ b @@ c @@ d @@ e :
        a \in Member("name", Names),
        b \in Member("email", Emails),
        c \in Member("address", Addresses),
        d \in Member("phone_number", Phones),
        e \in Member("date_joined", { isoformat(x) : x \in SampleDates }) }

\* the objects sent: every choice of required keys, the two optional keys sent
\* together or not at all with a complete set of required keys
Objects ==
    { m \in AllObjects :
        \/ /\ RequiredKeys \subseteq DOMAIN m
           /\ ("phone_number" \in DOMAIN m) <=> ("date_joined" \in DOMAIN m)
        \/ DOMAIN m \subseteq RequiredKeys }

\* a JSON value that is an object, or one that is not (an array)
Payloads == { [type |-> "object", members |-> m] : m \in Objects }
                \cup { [type |-> "array", members |-> EmptyObject] }

ValidPayload(data) ==
    data.type = "object" /\ RequiredKeys \subseteq DOMAIN data.members

----------------------------------------------------------------------------
(* The Account entity and its table *)

EmptyTable == [i \in {} |-> None]

Db == [accounts |-> accounts, nextId |-> nextId]

\* Account(): a new object, nothing assigned yet
NewAccount ==
    [id |-> None, name |-> None, email |-> None, address |-> None,
     phone_number |-> None, date_joined |-> None]

\* account.serialize(): the six keys, the date as an ISO string
serialize(account) ==
    [id |-> account.id, name |-> account.name, email |-> account.email,
     address |-> account.address, phone_number |-> account.phone_number,
     date_joined |-> isoformat(account.date_joined)]

\* account.deserialize(data): assigns the fields one after the other and fails
\* at the first required key that is absent, or at once when data is no object;
\* an optional key that is absent takes its default
deserialize(account, data, today) ==
    IF data.type # "object" THEN [ok |-> FALSE, account |-> account]
    ELSE
    LET m == data.members
        a1 == [account EXCEPT !.name = m["name"]]
        a2 == [a1 EXCEPT !.email = m["email"]]
        a3 == [a2 EXCEPT !.address = m["address"]]
        a4 == [a3 EXCEPT !.phone_number =
                  IF "phone_number" \in DOMAIN m THEN m["phone_number"] ELSE None]
        a5 == [a4 EXCEPT !.date_joined =
                  IF "date_joined" \in DOMAIN m THEN fromisoformat(m["date_joined"])
                  ELSE today]
    IN  IF "name" \notin DOMAIN m THEN [ok |-> FALSE, account |-> account]
        ELSE IF "email" \notin DOMAIN m THEN [ok |-> FALSE, account |-> a1]
        ELSE IF "address" \notin DOMAIN m THEN [ok |-> FALSE, account |-> a2]
        ELSE [ok |-> TRUE, account |-> a5]

\* Account.find(id): the row, or nothing
Account_find(db, id) ==
    IF id \in DOMAIN db.accounts
    THEN [found |-> TRUE, account |-> db.accounts[id]]
    ELSE [found |-> FALSE, account |-> NewAccount]

\* Account.all(): every row, in the order the query returns them
Account_all(db, order) == [i \in 1..Len(order) |-> db.accounts[order[i]]]

\* account.create(): insert and commit; the sequence assigns the id
Account_create(db, account) ==
    LET row == [account EXCEPT !.id = db.nextId]
    IN  [db |-> [accounts |-> (db.nextId :> row) @@ db.accounts,
                 nextId |-> db.nextId + 1],
         account |-> row]

\* account.update(): commit the object's fields to its row
Account_update(db, account) ==
    [db EXCEPT !.accounts = (account.id :> account) @@ db.accounts]

\* account.delete(): delete the row and commit
Account_delete(db, account) ==
    [db EXCEPT !.accounts =
        [i \in (DOMAIN db.accounts) \ {account.id} |-> db.accounts[i]]]

\* the orders in which a query may return the rows with the ids of S
Orders(S) ==
    { o \in [1..Cardinality(S) -> S] : \A i, j \in 1..Cardinality(S) : o[i] = o[j] => i = j }

----------------------------------------------------------------------------
(* Responses *)

NotFound == [status |-> HTTP_404_NOT_FOUND, body |-> [error |-> "Account not found"]]

NoContent == [status |-> HTTP_204_NO_CONTENT, body |-> ""]

\* DataValidationError, as the error handlers answer it
BadRequest == [status |-> HTTP_400_BAD_REQUEST, body |-> [error |-> "Bad Request"]]

\* abort(415, ...)
UnsupportedMediaType(media_type) ==
    [status |-> HTTP_415_UNSUPPORTED_MEDIA_TYPE,
     body |-> [error |-> "Content-Type must be", media_type |-> media_type]]

----------------------------------------------------------------------------
(* Route handlers: each maps the table and the request to the table and the
   response *)

\* check_content_type with an absent Content-Type let through
check_content_type_lenient(content_type, media_type) ==
    content_type = None \/ content_type = media_type

\* TRUE when the request passes, FALSE when it is aborted with 415
check_content_type(content_type, media_type) ==
    content_type # None /\ content_type # "" /\ content_type = media_type

health == [status |-> HTTP_200_OK, body |-> [status |-> "OK"]]

index ==
    [status |-> HTTP_200_OK,
     body |-> [name |-> "Account REST API Service", version |-> "1.0"]]

\* create_accounts answering with the posted mapping instead of account.serialize()
create_accounts_echo(db, content_type, data, today) ==
    IF ~check_content_type(content_type, "application/json")
    THEN [db |-> db, response |-> UnsupportedMediaType("application/json")]
    ELSE
    LET d == deserialize(NewAccount, data, today)
    IN  IF ~d.ok THEN [db |-> db, response |-> BadRequest]
        ELSE
        LET c == Account_create(db, d.account)
        IN  [db |-> c.db,
             response |-> [status |-> HTTP_201_CREATED,
                           body |-> ("id" :> c.account.id) @@ data.members,
                           location |-> "/"]]

\* create_accounts with account.create() called before account.deserialize()
create_accounts_create_first(db, content_type, data, today) ==
    IF ~check_content_type(content_type, "application/json")
    THEN [db |-> db, response |-> UnsupportedMediaType("application/json")]
    ELSE
    LET c == Account_create(db, NewAccount)
        d == deserialize(c.account, data, today)
    IN  IF ~d.ok THEN [db |-> c.db, response |-> BadRequest]
        ELSE [db |-> Account_update(c.db, d.account),
              response |-> [status |-> HTTP_201_CREATED,
                            body |-> serialize(d.account),
                            location |-> "/"]]

create_accounts(db, content_type, data, today) ==
    IF ~check_content_type(content_type, "application/json")
    THEN [db |-> db, response |-> UnsupportedMediaType("application/json")]
    ELSE
    LET d == deserialize(NewAccount, data, today)
    IN  IF ~d.ok THEN [db |-> db, response |-> BadRequest]
        ELSE
        LET c == Account_create(db, d.account)
        IN  [db |-> c.db,
             response |-> [status |-> HTTP_201_CREATED,
                           body |-> serialize(c.account),
                           location |-> "/"]]

\* get_all_accounts_route serializing the first row only
get_all_accounts_route_first(db, order) ==
    LET rows == Account_all(db, order)
    IN  [db |-> db,
         response |-> [status |-> HTTP_200_OK,
                       body |-> [i \in 1..(IF Len(rows) = 0 THEN 0 ELSE 1) |-> serialize(rows[i])]]]

get_all_accounts_route(db, order) ==
    LET rows == Account_all(db, order)
    IN  [db |-> db,
         response |-> [status |-> HTTP_200_OK,
                       body |-> [i \in 1..Len(rows) |-> serialize(rows[i])]]]

get_account(db, account_id) ==
    LET f == Account_find(db, account_id)
    IN  IF ~f.found THEN [db |-> db, response |-> NotFound]
        ELSE [db |-> db,
              response |-> [status |-> HTTP_200_OK, body |-> serialize(f.account)]]

\* update_account reading and validating the body before the lookup
update_account_validate_first(db, account_id, data, today) ==
    LET f == Account_find(db, account_id)
        d == deserialize(IF f.found THEN f.account ELSE NewAccount, data, today)
    IN  IF ~d.ok THEN [db |-> db, response |-> BadRequest]
        ELSE IF ~f.found THEN [db |-> db, response |-> NotFound]
        ELSE [db |-> Account_update(db, d.account),
              response |-> [status |-> HTTP_200_OK, body |-> serialize(d.account)]]

\* update_account without account.update(): nothing is committed
update_account_no_commit(db, account_id, data, today) ==
    LET f == Account_find(db, account_id)
    IN  IF ~f.found THEN [db |-> db, response |-> NotFound]
        ELSE
        LET d == deserialize(f.account, data, today)
        IN  IF ~d.ok THEN [db |-> db, response |-> BadRequest]
            ELSE [db |-> db,
                  response |-> [status |-> HTTP_200_OK, body |-> serialize(d.account)]]

\* update_account committing the session when deserialize has failed
update_account_commit_on_error(db, account_id, data, today) ==
    LET f == Account_find(db, account_id)
    IN  IF ~f.found THEN [db |-> db, response |-> NotFound]
        ELSE
        LET d == deserialize(f.account, data, today)
        IN  IF ~d.ok THEN [db |-> Account_update(db, d.account), response |-> BadRequest]
            ELSE [db |-> Account_update(db, d.account),
                  response |-> [status |-> HTTP_200_OK, body |-> serialize(d.account)]]

update_account(db, account_id, data, today) ==
    LET f == Account_find(db, account_id)
    IN  IF ~f.found THEN [db |-> db, response |-> NotFound]
        ELSE
        LET d == deserialize(f.account, data, today)
        IN  \* a failed deserialize raises: update() is not reached and the
            \* session's object is dropped with the request
            IF ~d.ok THEN [db |-> db, response |-> BadRequest]
            ELSE [db |-> Account_update(db, d.account),
                  response |-> [status |-> HTTP_200_OK, body |-> serialize(d.account)]]

\* delete_account answering 404 for an id it does not find
delete_account_404(db, account_id) ==
    LET f == Account_find(db, account_id)
    IN  IF f.found THEN [db |-> Account_delete(db, f.account), response |-> NoContent]
        ELSE [db |-> db, response |-> NotFound]

\* delete_account without account.delete()
delete_account_keep(db, account_id) ==
    [db |-> db, response |-> NoContent]

delete_account(db, account_id) ==
    LET f == Account_find(db, account_id)
    IN  [db |-> IF f.found THEN Account_delete(db, f.account) ELSE db,
         response |-> NoContent]

----------------------------------------------------------------------------
(* Requests handled one at a time *)

NoBody == [type |-> "none", members |-> EmptyObject]

Request(op, id, content_type, body) ==
    [op |-> op, id |-> id, content_type |-> content_type, body |-> body]

Workers == {"w1", "w2"}

NoJob == [op |-> "none", id |-> 0, body |-> NoBody, today |-> <<0, 0, 0>>]
NoSession == [found |-> FALSE, account |-> NewAccount, lost |-> FALSE]
NoReply == [status |-> 0, body |-> ""]

Init ==
    /\ accounts = EmptyTable
    /\ nextId = 1
    /\ request = Request("none", 0, None, NoBody)
    /\ response = NoReply
    /\ history = [creates |-> 0, deletes |-> FALSE]
    /\ pc = [w \in Workers |-> "idle"]
    /\ job = [w \in Workers |-> NoJob]
    /\ sess = [w \in Workers |-> NoSession]
    /\ reply = [w \in Workers |-> NoReply]
    /\ db0 = [accounts |-> EmptyTable, nextId |-> 1]

\* the table and the response after a handler, and what the client sent
Handled(req, out) ==
    /\ accounts' = out.db.accounts
    /\ nextId' = out.db.nextId
    /\ request' = req
    /\ response' = out.response
    /\ history' = [creates |-> IF req.op = "create" /\ out.response.status = HTTP_201_CREATED
                                THEN history.creates + 1 ELSE history.creates,
                   deletes |-> history.deletes \/ req.op = "delete"]
    /\ UNCHANGED concVars

GetHealth ==
    Handled(Request("health", 0, None, NoBody), [db |-> Db, response |-> health])

GetIndex ==
    Handled(Request("index", 0, None, NoBody), [db |-> Db, response |-> index])

PostAccounts ==
    \E content_type \in ContentTypes, data \in Payloads, today \in Todays :
        LET out == create_accounts(Db, content_type, data, today)
        IN  /\ out.db.nextId <= MaxAccounts + 1
            /\ Handled(Request("create", 0, content_type, data), out)

GetAccounts ==
    \E order \in Orders(DOMAIN accounts) :
        Handled(Request("list", 0, None, NoBody), get_all_accounts_route(Db, order))

GetAccount ==
    \E account_id \in Ids :
        Handled(Request("read", account_id, None, NoBody), get_account(Db, account_id))

PutAccount ==
    \E account_id \in Ids, data \in Payloads, today \in Todays :
        Handled(Request("update", account_id, "application/json", data),
                update_account(Db, account_id, data, today))

DeleteAccount ==
    \E account_id \in Ids :
        Handled(Request("delete", account_id, None, NoBody), delete_account(Db, account_id))

Next ==
    \/ GetHealth
    \/ GetIndex
    \/ PostAccounts
    \/ GetAccounts
    \/ GetAccount
    \/ PutAccount
    \/ DeleteAccount

Spec == Init /\ [][Next]_vars

----------------------------------------------------------------------------
(* Two requests in flight.  A handler's persistence calls are separate
   steps: find() reads the table, update() / delete() commit to it.  The
   handlers take no lock between them. *)

\* one account in the table when the requests are launched
ConcTables ==
    { (1 :> [id |-> 1, name |-> n, email |-> e, address |-> a,
             phone_number |-> ph, date_joined |-> d]) :
        n \in Names, e \in Emails, a \in Addresses,
        ph \in Phones \cup {None}, d \in SampleDates \cup Todays }

Jobs ==
    { [op |-> "update", id |-> i, body |-> data, today |-> t] :
        i \in Ids, data \in Payloads, t \in Todays }
    \cup { [op |-> o, id |-> i, body |-> NoBody, today |-> t] :
        o \in {"read", "delete"}, i \in Ids, t \in Todays }

ConcInit ==
    /\ accounts \in ConcTables
    /\ nextId = 2
    /\ db0 = [accounts |-> accounts, nextId |-> nextId]
    /\ request = Request("none", 0, None, NoBody)
    /\ response = NoReply
    /\ history = [creates |-> 0, deletes |-> FALSE]
    /\ pc = [w \in Workers |-> "idle"]
    /\ job = [w \in Workers |-> NoJob]
    /\ sess = [w \in Workers |-> NoSession]
    /\ reply = [w \in Workers |-> NoReply]

\* a request arrives at worker w
Launch(w) ==
    /\ pc[w] = "idle"
    /\ \E j \in Jobs : job' = [job EXCEPT ![w] = j]
    /\ pc' = [pc EXCEPT ![w] = "find"]
    /\ UNCHANGED <<accounts, nextId, sess, reply, db0, seqVars>>

Finish(w, r) ==
    /\ reply' = [reply EXCEPT ![w] = r]
    /\ pc' = [pc EXCEPT ![w] = "done"]

\* Account.find(account_id), and what the handler does before its next
\* persistence call
Find(w) ==
    /\ pc[w] = "find"
    /\ LET f == Account_find(Db, job[w].id)
           d == deserialize(f.account, job[w].body, job[w].today)
       IN  \/ /\ job[w].op = "read"
              /\ Finish(w, get_account(Db, job[w].id).response)
              /\ UNCHANGED sess
           \/ /\ job[w].op = "update" /\ ~f.found
              /\ Finish(w, NotFound)
              /\ UNCHANGED sess
           \/ /\ job[w].op = "update" /\ f.found /\ ~d.ok
              /\ Finish(w, BadRequest)
              /\ UNCHANGED sess
           \/ /\ job[w].op = "update" /\ f.found /\ d.ok
              /\ sess' = [sess EXCEPT ![w] = [found |-> TRUE, account |-> d.account, lost |-> FALSE]]
              /\ pc' = [pc EXCEPT ![w] = "commit"]
              /\ UNCHANGED reply
           \/ /\ job[w].op = "delete" /\ ~f.found
              /\ Finish(w, NoContent)
              /\ UNCHANGED sess
           \/ /\ job[w].op = "delete" /\ f.found
              /\ sess' = [sess EXCEPT ![w] = [found |-> TRUE, account |-> f.account, lost |-> FALSE]]
              /\ pc' = [pc EXCEPT ![w] = "commit"]
              /\ UNCHANGED reply
    /\ UNCHANGED <<accounts, nextId, job, db0, seqVars>>

\* account.update() of a row that is still there
CommitUpdate(w) ==
    /\ pc[w] = "commit" /\ job[w].op = "update"
    /\ job[w].id \in DOMAIN accounts
    /\ accounts' = Account_update(Db, sess[w].account).accounts
    /\ Finish(w, [status |-> HTTP_200_OK, body |-> serialize(sess[w].account)])
    /\ UNCHANGED <<nextId, job, sess, db0, seqVars>>

\* account.update() of a row deleted since find(): the UPDATE matches no row;
\* the persistence layer raises, and the error surfaces as a 5xx
CommitUpdateLostRaises(w) ==
    /\ pc[w] = "commit" /\ job[w].op = "update"
    /\ job[w].id \notin DOMAIN accounts
    /\ sess' = [sess EXCEPT ![w].lost = TRUE]
    /\ Finish(w, [status |-> HTTP_500_INTERNAL_SERVER_ERROR, body |-> [error |-> "Internal Server Error"]])
    /\ UNCHANGED <<accounts, nextId, job, db0, seqVars>>

\* account.update() of a row deleted since find(): the UPDATE matches no row;
\* the persistence layer reports nothing, and the handler answers 200
CommitUpdateLostSilent(w) ==
    /\ pc[w] = "commit" /\ job[w].op = "update"
    /\ job[w].id \notin DOMAIN accounts
    /\ sess' = [sess EXCEPT ![w].lost = TRUE]
    /\ Finish(w, [status |-> HTTP_200_OK, body |-> serialize(sess[w].account)])
    /\ UNCHANGED <<accounts, nextId, job, db0, seqVars>>

\* account.delete(): the DELETE removes the row if it is still there
CommitDelete(w) ==
    /\ pc[w] = "commit" /\ job[w].op = "delete"
    /\ accounts' = Account_delete(Db, sess[w].account).accounts
    /\ Finish(w, NoContent)
    /\ UNCHANGED <<nextId, job, sess, db0, seqVars>>

ConcNext ==
    \E w \in Workers :
        \/ Launch(w)
        \/ Find(w)
        \/ CommitUpdate(w)
        \/ CommitUpdateLostRaises(w)
        \/ CommitUpdateLostSilent(w)
        \/ CommitDelete(w)

ConcSpec == ConcInit /\ [][ConcNext]_vars

\* the handler of request j, run as one step
Handle(db, j) ==
    IF j.op = "update" THEN update_account(db, j.id, j.body, j.today)
    ELSE IF j.op = "delete" THEN delete_account(db, j.id)
    ELSE get_account(db, j.id)

\* the workers' requests run one after the other in the order ws
RECURSIVE RunInOrder(_, _)
RunInOrder(db, ws) ==
    IF ws = <<>> THEN [db |-> db, replies |-> [w \in {} |-> NoReply]]
    ELSE LET h == Handle(db, job[Head(ws)])
             rest == RunInOrder(h.db, Tail(ws))
         IN  [db |-> rest.db, replies |-> (Head(ws) :> h.response) @@ rest.replies]

SameResponse(a, b) == a.status = b.status /\ a.body = b.body

AllDone == \A w \in Workers : pc[w] = "done"

----------------------------------------------------------------------------
(* Properties *)

JSON == "application/json"

DbNext == [accounts |-> accounts', nextId |-> nextId']

\* what GET /accounts/{id} answers now
Read(id) == get_account(Db, id).response

\* what GET /accounts/{id} answers after the step
ReadNext(id) == get_account(DbNext, id).response

\* C1: a POST of a valid payload with Content-Type application/json answers
\* 201 with every submitted field as submitted, and a GET of the returned id
\* then answers 200 with the same representation.
C1_CreateRoundTrip ==
    (request.op = "create" /\ request.content_type = JSON /\ ValidPayload(request.body)) =>
        /\ response.status = HTTP_201_CREATED
        /\ \A k \in DOMAIN request.body.members :
                response.body[k] = request.body.members[k]
        /\ Read(response.body.id).status = HTTP_200_OK
        /\ Read(response.body.id).body = response.body

C1_Witness ==
    /\ request.op = "create"
    /\ response.status = HTTP_201_CREATED
    /\ "date_joined" \in DOMAIN request.body.members
    /\ response.body.id = 2

\* C2: with no DELETE handled so far, GET /accounts answers 200 with exactly
\* as many entries as creates have succeeded (none on the empty store), each
\* with the six keys, in whatever order the query returns the rows.
C2_ListCount ==
    /\ ~history.deletes =>
          \A order \in Orders(DOMAIN accounts) :
              LET r == get_all_accounts_route(Db, order).response
              IN  /\ r.status = HTTP_200_OK
                  /\ Len(r.body) = history.creates
                  /\ \A i \in 1..Len(r.body) : DOMAIN r.body[i] = SerializedKeys
    /\ (request.op = "list" /\ ~history.deletes) =>
          /\ response.status = HTTP_200_OK
          /\ Len(response.body) = history.creates

C2_Witness ==
    /\ request.op = "list"
    /\ ~history.deletes
    /\ history.creates = 2
    /\ Len(response.body) = 2

\* C3: a GET or a PUT of an id that is not in the table answers 404 with
\* {"error": "Account not found"}, whatever the PUT's body, and leaves the
\* table as it was.
C3_MissingIdNotFound ==
    [][ (request'.op \in {"read", "update"} /\ request'.id \notin DOMAIN accounts) =>
            /\ response'.status = HTTP_404_NOT_FOUND
            /\ response'.body = [error |-> "Account not found"]
            /\ accounts' = accounts
            /\ nextId' = nextId ]_vars

C3_Witness ==
    /\ request.op = "update"
    /\ request.id \notin DOMAIN accounts
    /\ ~ValidPayload(request.body)
    /\ response.status = HTTP_404_NOT_FOUND
    /\ DOMAIN accounts # {}

\* C4: a DELETE answers 204 with an empty body; of an id that is not in the
\* table it leaves the table as it was; done twice on the same id it gives
\* the response and the table of doing it once.
C4_DeleteMissingNoop ==
    /\ \A id \in Ids :
          LET once == delete_account(Db, id)
              twice == delete_account(once.db, id)
          IN  /\ once.response.status = HTTP_204_NO_CONTENT
              /\ once.response.body = ""
              /\ id \notin DOMAIN accounts => once.db = Db
              /\ twice.response.status = once.response.status
              /\ twice.response.body = once.response.body
              /\ twice.db = once.db
    /\ request.op = "delete" =>
          /\ response.status = HTTP_204_NO_CONTENT
          /\ response.body = ""

C4_Witness ==
    /\ request.op = "delete"
    /\ request.id < nextId
    /\ request.id \notin DOMAIN accounts
    /\ history.deletes
    /\ response.status = HTTP_204_NO_CONTENT
    /\ DOMAIN accounts # {}

\* C5: a DELETE of an id in the table answers 204 with an empty body, the id
\* then reads 404 and every other account reads as before; an id that was
\* handed out and is gone reads 404 after every later step.
C5_DeletedStaysGone ==
    [][ /\ (request'.op = "delete" /\ request'.id \in DOMAIN accounts) =>
              /\ response'.status = HTTP_204_NO_CONTENT
              /\ response'.body = ""
              /\ ReadNext(request'.id).status = HTTP_404_NOT_FOUND
              /\ \A j \in (DOMAIN accounts) \ {request'.id} :
                    /\ ReadNext(j).status = HTTP_200_OK
                    /\ ReadNext(j).body = Read(j).body
        /\ \A id \in Ids :
              (id < nextId /\ id \notin DOMAIN accounts) =>
                  ReadNext(id).status = HTTP_404_NOT_FOUND ]_vars

C5_Witness ==
    /\ request.op = "read"
    /\ request.id < nextId
    /\ request.id \notin DOMAIN accounts
    /\ response.status = HTTP_404_NOT_FOUND
    /\ nextId = MaxAccounts + 1
    /\ DOMAIN accounts # {}

\* C6: a POST whose Content-Type is not exactly application/json, or is
\* absent, answers 415 whatever its body, and neither the table nor the id
\* sequence is touched.
C6_UnsupportedMediaType ==
    [][ (request'.op = "create" /\ request'.content_type # JSON) =>
            /\ response'.status = HTTP_415_UNSUPPORTED_MEDIA_TYPE
            /\ accounts' = accounts
            /\ nextId' = nextId ]_vars

C6_Witness ==
    /\ request.op = "create"
    /\ request.content_type = None
    /\ ValidPayload(request.body)
    /\ response.status = HTTP_415_UNSUPPORTED_MEDIA_TYPE

\* C7: a POST with Content-Type application/json whose body lacks name,
\* email or address, or is no JSON object, answers 400; no row is added, no
\* id is used up, and a list shows what it showed before.
C7_BadRequestNoWrite ==
    [][ (request'.op = "create" /\ request'.content_type = JSON
            /\ ~ValidPayload(request'.body)) =>
            /\ response'.status = HTTP_400_BAD_REQUEST
            /\ accounts' = accounts
            /\ nextId' = nextId
            /\ LET order == CHOOSE o \in Orders(DOMAIN accounts) : TRUE
               IN  get_all_accounts_route(DbNext, order).response.body
                      = get_all_accounts_route(Db, order).response.body ]_vars

C7_Witness ==
    /\ request.op = "create"
    /\ request.content_type = JSON
    /\ request.body.type = "object"
    /\ DOMAIN request.body.members = {"name", "email"}
    /\ response.status = HTTP_400_BAD_REQUEST

\* C8 as stated: a PUT of an id in the table changes only the fields its body
\* supplies: a field the body does not supply keeps its stored value, the id
\* is not altered, no other account is modified, and the 200 response and a
\* following GET show the updated values.
C8_UpdateOnlySupplied ==
    [][ (request'.op = "update" /\ request'.id \in DOMAIN accounts) =>
            LET id == request'.id
                m == request'.body.members
            IN  /\ DOMAIN accounts' = DOMAIN accounts
                /\ accounts'[id].id = id
                /\ \A j \in (DOMAIN accounts) \ {id} : accounts'[j] = accounts[j]
                /\ \A k \in Keys \ DOMAIN m : accounts'[id][k] = accounts[id][k]
                /\ response'.status = HTTP_200_OK =>
                      /\ \A k \in DOMAIN m : response'.body[k] = m[k]
                      /\ ReadNext(id).status = HTTP_200_OK
                      /\ ReadNext(id).body = response'.body ]_vars

\* C8 as amended: a PUT of an id in the table with a valid body answers 200
\* and replaces every mutable field: a supplied field takes the supplied
\* value, an omitted phone_number becomes null and an omitted date_joined
\* becomes the current date; the id is not altered, no other account is
\* modified, and the 200 response and a following GET show the updated values.
C8_UpdateReplacesFields ==
    [][ (request'.op = "update" /\ request'.id \in DOMAIN accounts
            /\ ValidPayload(request'.body)) =>
            LET id == request'.id
                m == request'.body.members
                shown == ReadNext(id)
            IN  /\ DOMAIN accounts' = DOMAIN accounts
                /\ nextId' = nextId
                /\ accounts'[id].id = id
                /\ \A j \in (DOMAIN accounts) \ {id} : accounts'[j] = accounts[j]
                /\ response'.status = HTTP_200_OK
                /\ response'.body.id = id
                /\ shown.status = HTTP_200_OK
                /\ shown.body = response'.body
                /\ \A k \in DOMAIN m : shown.body[k] = m[k]
                /\ "phone_number" \notin DOMAIN m => shown.body.phone_number = None
                /\ "date_joined" \notin DOMAIN m =>
                      shown.body.date_joined \in { isoformat(t) : t \in Todays } ]_vars

C8_Witness ==
    /\ request.op = "update"
    /\ request.id \in DOMAIN accounts
    /\ response.status = HTTP_200_OK
    /\ DOMAIN request.body.members = RequiredKeys
    /\ request.body.members["name"] = "Bob"
    /\ Cardinality(DOMAIN accounts) = 2
    /\ \E j \in DOMAIN accounts : accounts[j].phone_number # None

C10_Serializable ==
    AllDone =>
        /\ \E o \in Orders(Workers) :
              LET r == RunInOrder(db0, o)
              IN  /\ r.db.accounts = accounts
                  /\ \A w \in Workers : SameResponse(r.replies[w], reply[w])
        /\ \A w \in Workers :
              ~(job[w].op = "update" /\ sess[w].lost /\ reply[w].status = HTTP_200_OK)

====
